---------------------------- MODULE Spec2Model ----------------------------
(***************************************************************************)
(* Model of the screener crawler (crawler/crawler.py): the metadata and    *)
(* row parsers, the pagination predicate and the extraction loop of        *)
(* Crawler.extract.                                                        *)
(*                                                                         *)
(* A text is a sequence of one-character strings.  An optional element or  *)
(* attribute (what BeautifulSoup's find / Tag.get returns, a value or      *)
(* None) is a sequence of length 0 (absent) or 1 (present).                *)
(***************************************************************************)
EXTENDS Integers, Sequences, FiniteSets, TLC

(***************************************************************************)
(* Bounds of the model.                                                    *)
(***************************************************************************)
\* tokens per generated badge text in the parser calls
MaxTok == 4
\* rows per table body in a snapshot
MaxRows == 2
\* |argument| of the is_last_page calls
MaxArg == 4

(***************************************************************************)
(* Texts.                                                                  *)
(***************************************************************************)
Digits == {"0", "1", "2", "3", "4", "5", "6", "7", "8", "9"}

DigitVal(c) ==
    CASE c = "0" -> 0 [] c = "1" -> 1 [] c = "2" -> 2 [] c = "3" -> 3
      [] c = "4" -> 4 [] c = "5" -> 5 [] c = "6" -> 6 [] c = "7" -> 7
      [] c = "8" -> 8 [] c = "9" -> 9

\* str.strip() / get_text(strip=True) on a single text node
RECURSIVE LStrip(_)
LStrip(s) == IF s # <<>> /\ Head(s) = " " THEN LStrip(Tail(s)) ELSE s

RECURSIVE RStrip(_)
RStrip(s) ==
    IF s # <<>> /\ s[Len(s)] = " " THEN RStrip(SubSeq(s, 1, Len(s) - 1)) ELSE s

Strip(s) == RStrip(LStrip(s))

\* the separator of "<start>-<end> of <total>"
OfSep == <<" ", "o", "f", " ">>

\* `sep in s`
Contains(s, sep) ==
    \E i \in 1..(Len(s) - Len(sep) + 1) : SubSeq(s, i, i + Len(sep) - 1) = sep

\* s.split(sep)[-1]: str.split scans left to right for non-overlapping
\* occurrences of sep; what follows the last one it finds is the last piece.
RECURSIVE SplitLast(_, _)
SplitLast(s, sep) ==
    IF ~Contains(s, sep) THEN s
    ELSE LET i == CHOOSE k \in 1..(Len(s) - Len(sep) + 1) :
                      /\ SubSeq(s, k, k + Len(sep) - 1) = sep
                      /\ \A j \in 1..(k - 1) : SubSeq(s, j, j + Len(sep) - 1) # sep
         IN  SplitLast(SubSeq(s, i + Len(sep), Len(s)), sep)

AllDigits(s) == s # <<>> /\ \A i \in 1..Len(s) : s[i] \in Digits

RECURSIVE DecVal(_)
DecVal(s) == IF s = <<>> THEN 0 ELSE 10 * DecVal(SubSeq(s, 1, Len(s) - 1)) + DigitVal(s[Len(s)])

\* int(text): surrounding whitespace is ignored, one optional sign, then
\* decimal digits.  Anything else raises ValueError: IntOf is defined only
\* where IntParses holds (DigitVal has no value for a non-digit), so a parser
\* that reached int() outside its try block would stop the evaluation.
IntParses(s) ==
    LET t == Strip(s)
    IN  /\ t # <<>>
        /\ IF Head(t) \in {"-", "+"} THEN AllDigits(Tail(t)) ELSE AllDigits(t)

IntOf(s) ==
    LET t == Strip(s)
    IN  IF Head(t) = "-" THEN 0 - DecVal(Tail(t))
        ELSE IF Head(t) = "+" THEN DecVal(Tail(t))
        ELSE DecVal(t)

(***************************************************************************)
(* Crawler._parse_price.  A float is kept exactly, as digits * 10^-scale   *)
(* with trailing fractional zeros dropped, so "140.50" and "140.5" are the *)
(* same price and 0.0 is [digits |-> 0, scale |-> 0].                      *)
(***************************************************************************)
RECURSIVE RemoveCommas(_)
RemoveCommas(s) ==
    IF s = <<>> THEN <<>>
    ELSE IF Head(s) = "," THEN RemoveCommas(Tail(s))
    ELSE <<Head(s)>> \o RemoveCommas(Tail(s))

ZeroPrice == [digits |-> 0, scale |-> 0]

RECURSIVE Normalize(_)
Normalize(p) ==
    IF p.scale > 0 /\ p.digits % 10 = 0
    THEN Normalize([digits |-> p.digits \div 10, scale |-> p.scale - 1])
    ELSE p

DotAt(s) == IF \E i \in 1..Len(s) : s[i] = "." THEN CHOOSE i \in 1..Len(s) : s[i] = "." ELSE 0

\* unsigned body of a float literal: digits [. [digits]] or . digits
UFloatParses(u) ==
    LET d == DotAt(u)
    IN  IF d = 0 THEN AllDigits(u)
        ELSE LET ip == SubSeq(u, 1, d - 1)
                 fp == SubSeq(u, d + 1, Len(u))
             IN  /\ ip = <<>> \/ AllDigits(ip)
                 /\ fp = <<>> \/ AllDigits(fp)
                 /\ ip # <<>> \/ fp # <<>>

UFloatOf(u) ==
    LET d == DotAt(u)
    IN  IF d = 0 THEN [digits |-> DecVal(u), scale |-> 0]
        ELSE LET ip == SubSeq(u, 1, d - 1)
                 fp == SubSeq(u, d + 1, Len(u))
             IN  Normalize([digits |-> DecVal(ip \o fp), scale |-> Len(fp)])

\* float(text) succeeds
FloatParses(s) ==
    LET t == Strip(s)
    IN  /\ t # <<>>
        /\ IF Head(t) \in {"-", "+"} THEN UFloatParses(Tail(t)) ELSE UFloatParses(t)

FloatOf(s) ==
    LET t == Strip(s)
    IN  IF Head(t) = "-"
        THEN LET v == UFloatOf(Tail(t)) IN [digits |-> 0 - v.digits, scale |-> v.scale]
        ELSE IF Head(t) = "+" THEN UFloatOf(Tail(t))
        ELSE UFloatOf(t)

\* Crawler._parse_price without the removal of commas
_parse_price_keep_commas(price_str) ==
    IF price_str = <<>> THEN ZeroPrice
    ELSE IF FloatParses(price_str) THEN FloatOf(price_str)
    ELSE ZeroPrice

\* Crawler._parse_price
_parse_price(price_str) ==
    IF price_str = <<>> THEN ZeroPrice
    ELSE IF FloatParses(RemoveCommas(price_str)) THEN FloatOf(RemoveCommas(price_str))
    ELSE ZeroPrice

(***************************************************************************)
(* Snapshots: what the parsers look at in a page's markup.                 *)
(*   div_table  the div elements of class "screener-table yf-hm80y7", in   *)
(*              document order, each with its first table of class         *)
(*              "yf-1uayyp1 bd" (if any); a table has its first tbody (if  *)
(*              any) and the tr elements it holds outside that tbody       *)
(*   div_total  the text of the first div of class "total yf-c259ju"       *)
(*   menuBtn    the first button whose class has menuBtn and rightAlign    *)
(*   attrBtn    the first button that has both aria-label and title        *)
(* A row is the texts of its td elements; a button is its aria-label and   *)
(* title attributes and the text of its textSelect span.                   *)
(***************************************************************************)
Row(cells) == [cells |-> cells]
TBody(trs) == [trs |-> trs]
Table(tbody, trs) == [tbody |-> tbody, trs |-> trs]
Div(table) == [table |-> table]
Button(aria, title, span) == [aria_label |-> aria, title |-> title, span |-> span]
Snapshot(divs, total, menu, attr) ==
    [div_table |-> divs, div_total |-> total, menuBtn |-> menu, attrBtn |-> attr]

\* Crawler._get_table_rows, with the tbody check dropped: the table's own rows
\* are taken when it has no tbody (as _extract_from_yahoo_table does).
_get_table_rows_no_tbody_check(html) ==
    IF html.div_table = <<>> THEN <<>>
    ELSE LET table == html.div_table[1].table
         IN  IF table = <<>> THEN <<>>
             ELSE IF table[1].tbody = <<>> THEN table[1].trs
             ELSE table[1].tbody[1].trs

\* Crawler._get_table_rows
_get_table_rows(html) ==
    IF html.div_table = <<>> THEN <<>>
    ELSE LET table == html.div_table[1].table
         IN  IF table = <<>> THEN <<>>
             ELSE LET tbody == table[1].tbody
                  IN  IF tbody = <<>> THEN <<>>
                      ELSE tbody[1].trs

\* Crawler._get_total_rows, without the `" of " not in text` check
_get_total_rows_no_sep_check(html) ==
    IF html.div_total = <<>> THEN 0
    ELSE LET text == Strip(html.div_total[1])
             last == SplitLast(text, OfSep)
         IN  IF IntParses(last) THEN IntOf(last) ELSE 0

\* Crawler._get_total_rows
_get_total_rows(html) ==
    IF html.div_total = <<>> THEN 0
    ELSE LET text == Strip(html.div_total[1])
         IN  IF ~Contains(text, OfSep) THEN 0
             ELSE LET last == SplitLast(text, OfSep)
                  IN  IF IntParses(last) THEN IntOf(last) ELSE 0

\* `if val:` then int(str(val).strip()) succeeds
AttrIsInt(val) == val # <<>> /\ val[1] # <<>> /\ IntParses(val[1])

\* Crawler._get_rows_per_page
_get_rows_per_page(html) ==
    LET btn == IF html.menuBtn # <<>> THEN html.menuBtn ELSE html.attrBtn
    IN  IF btn = <<>> THEN 0
        ELSE IF AttrIsInt(btn[1].aria_label) THEN IntOf(btn[1].aria_label[1])
        ELSE IF AttrIsInt(btn[1].title) THEN IntOf(btn[1].title[1])
        ELSE IF btn[1].span # <<>> /\ IntParses(Strip(btn[1].span[1]))
             THEN IntOf(Strip(btn[1].span[1]))
        ELSE 0

\* Crawler.is_last_page without the rows_per_page <= 0 guard
is_last_page_no_guard(page, total_rows, rows_per_page) ==
    (page + 1) * rows_per_page >= total_rows

\* Crawler.is_last_page with > for >=
is_last_page_strict(page, total_rows, rows_per_page) ==
    IF rows_per_page <= 0 THEN TRUE
    ELSE (page + 1) * rows_per_page > total_rows

\* Crawler.is_last_page
is_last_page(page, total_rows, rows_per_page) ==
    IF rows_per_page <= 0 THEN TRUE
    ELSE (page + 1) * rows_per_page >= total_rows

(***************************************************************************)
(* The body of the extraction loop of Crawler.extract.                     *)
(***************************************************************************)
\* cells_html[i] raises IndexError (i is the 0-based Python index)
IndexRaises(cells, i) == i + 1 > Len(cells)

\* the row's three cell reads: cells_html[1], cells_html[2], cells_html[4]
RowRaises(tr) ==
    IndexRaises(tr.cells, 1) \/ IndexRaises(tr.cells, 2) \/ IndexRaises(tr.cells, 4)

\* the dict built from one row
RowRecord(tr) ==
    [symbol |-> Strip(tr.cells[2]),
     name   |-> Strip(tr.cells[3]),
     price  |-> _parse_price(Strip(tr.cells[5]))]

\* rows.append(...), skipping a record whose symbol is already in rows
AppendRecordDedup(rows, rec) ==
    IF \E i \in 1..Len(rows) : rows[i].symbol = rec.symbol THEN rows
    ELSE Append(rows, rec)

\* rows.append({"symbol": symbol, "name": name, "price": price})
AppendRecord(rows, rec) == Append(rows, rec)

\* the for loop over rows_html: the rows list when the loop ends, and whether
\* it ended by an IndexError (which leaves extract)
RECURSIVE AppendAll(_, _)
AppendAll(rows, trs) ==
    IF trs = <<>> THEN [rows |-> rows, raised |-> FALSE]
    ELSE IF RowRaises(Head(trs)) THEN [rows |-> rows, raised |-> TRUE]
    ELSE AppendAll(AppendRecord(rows, RowRecord(Head(trs))), Tail(trs))

\* the page-size fallback, applied on every page whatever the page size is
AdaptRowsPerPageAlways(rows_per_page, n) == n

\* if not rows_per_page: rows_per_page = len(rows_html)
AdaptRowsPerPage(rows_per_page, n) == IF rows_per_page = 0 THEN n ELSE rows_per_page

(***************************************************************************)
(* Inputs.                                                                 *)
(***************************************************************************)
SeqsUpTo(S, n) == UNION {[1..k -> S] : k \in 0..n}

RECURSIVE Flatten(_)
Flatten(ss) == IF ss = <<>> THEN <<>> ELSE Head(ss) \o Flatten(Tail(ss))

\* rows of the screener table: two well-formed rows with the same symbol (the
\* second with a sixth cell and a price with a thousands separator) and a
\* row with two cells
RowA == Row(<<<<"0">>, <<"A">>, <<"A", "a">>, <<"x">>, <<"1", ".", "5">>>>)
RowB == Row(<<<<"1">>, <<"A">>, <<"B", "b">>, <<"x">>,
              <<"1", ",", "5", "2", "0", ".", "0", "0">>, <<"y">>>>)
RowShort == Row(<<<<"a">>, <<"b">>>>)
RowKinds == {RowA, RowB, RowShort}

RowLists == SeqsUpTo(RowKinds, MaxRows)

\* the first table of a container: none, one without a tbody (its rows are
\* its own), one with a tbody
TableChoices ==
    {<<>>}
      \cup {<<Table(<<>>, r)>> : r \in RowLists}
      \cup {<<Table(<<TBody(r)>>, <<>>)>> : r \in RowLists}

\* the text of the total badge: "1-2 of <total>" and malformed ones
Badge(total) == <<"1", "-", "2">> \o OfSep \o total
TotalChoices ==
    {<<>>,
     <<<<"1", "2">>>>,
     <<Badge(<<"0">>)>>,
     <<Badge(<<"3">>)>>,
     <<Badge(<<"4">>)>>,
     <<Badge(<<"-", "3">>)>>,
     <<Badge(<<"x">>)>>}

\* the page-size control
MenuBtnChoices ==
    {<<>>,
     <<Button(<<<<"2">>>>, <<<<"2">>>>, <<<<"2">>>>)>>,
     <<Button(<<<<"x">>>>, <<<<"1">>>>, <<>>)>>,
     <<Button(<<>>, <<>>, <<<<" ", "2", " ">>>>)>>,
     <<Button(<<<<"0">>>>, <<<<"2">>>>, <<>>)>>}
AttrBtnChoices ==
    {<<>>,
     <<Button(<<<<"-", "2">>>>, <<<<>>>>, <<>>)>>}

\* the page the browser shows when the region filter has been applied
DivChoices == {<<>>} \cup {<<Div(t)>> : t \in TableChoices}
FirstSnapshots ==
    {Snapshot(d, tot, m, a) :
        d \in DivChoices, tot \in TotalChoices, m \in MenuBtnChoices, a \in AttrBtnChoices}

\* pages the browser may show after a click on Next; their badge and
\* page-size control differ from every first page's
LaterTotal == <<Badge(<<"9">>)>>
LaterBtn == <<Button(<<<<"7">>>>, <<<<"7">>>>, <<>>)>>
LaterSnapshots ==
    {Snapshot(<<>>, <<>>, <<>>, <<>>),
     Snapshot(<<Div(<<Table(<<>>, <<RowA>>)>>)>>, LaterTotal, LaterBtn, <<>>),
     Snapshot(<<Div(<<Table(<<TBody(<<RowA>>)>>, <<>>)>>)>>, LaterTotal, LaterBtn, <<>>),
     Snapshot(<<Div(<<Table(<<TBody(<<RowB, RowA>>)>>, <<>>)>>)>>, LaterTotal, LaterBtn, <<>>),
     Snapshot(<<Div(<<Table(<<TBody(<<RowA, RowShort>>)>>, <<>>)>>)>>, LaterTotal, LaterBtn, <<>>)}

NoSnapshot == Snapshot(<<>>, <<>>, <<>>, <<>>)

(***************************************************************************)
(* The browser of a Crawler.  chrome lists the browsers that                *)
(* webdriver.Chrome(...) has constructed, each as the number of quit()      *)
(* calls it has received; the only assignments to self._driver are the one  *)
(* in _get_driver, of a browser just constructed, and the one in close, so  *)
(* a browser that is held is the last of chrome.                            *)
(***************************************************************************)
\* Crawler._get_driver that opens a browser on every call
_get_driver_always_new(d, c) == [driver |-> "live", chrome |-> Append(c, 0)]

\* Crawler._get_driver: the new self._driver and the browsers constructed;
\* the browser returned is the last of them
_get_driver(d, c) ==
    IF d = "None" THEN [driver |-> "live", chrome |-> Append(c, 0)]
    ELSE [driver |-> d, chrome |-> c]

\* Crawler.close
close(d, c) ==
    IF d # "None" THEN [driver |-> "None", chrome |-> [c EXCEPT ![Len(c)] = @ + 1]]
    ELSE [driver |-> d, chrome |-> c]

\* Crawler.__exit__ that leaves the browser open
__exit___no_close(d, c) == [driver |-> d, chrome |-> c]

\* Crawler.__exit__(*args)
__exit__(d, c) == close(d, c)

(***************************************************************************)
(* The configuration of the Application.  A variable of the environment is *)
(* <<>> when it is unset and <<text>> when it is set.                       *)
(***************************************************************************)
\* load_dotenv(): a variable of the .env file is set in the environment
\* unless the environment has it already
load_dotenv(env, file) ==
    [CRAWLER_URL    |-> IF env.CRAWLER_URL # <<>> THEN env.CRAWLER_URL ELSE file.CRAWLER_URL,
     CRAWLER_REGION |-> IF env.CRAWLER_REGION # <<>> THEN env.CRAWLER_REGION
                        ELSE file.CRAWLER_REGION,
     CRAWLER_OUTPUT |-> IF env.CRAWLER_OUTPUT # <<>> THEN env.CRAWLER_OUTPUT
                        ELSE file.CRAWLER_OUTPUT]

\* os.environ.get(key, default)
EnvGet(env, key, default) == IF env[key] = <<>> THEN default ELSE env[key][1]

\* `a or b` on texts
Or(a, b) == IF a = <<>> THEN b ELSE a

Brazil == <<"Brazil">>
\* f"output_{region}.csv"
OutputOf(region) == <<"output_">> \o region \o <<".csv">>

\* Application.__init__ up to the call of _load_config
NewApplication == [_url |-> <<>>, _region |-> Brazil, _output_path |-> OutputOf(Brazil)]

\* Application._load_config that accepts a URL of blanks
_load_config_blank_url(env) ==
    LET url == EnvGet(env, "CRAWLER_URL", <<>>)
    IN  IF env.CRAWLER_URL = <<>> \/ url = <<>>
        THEN [exit |-> <<1>>, app |-> NewApplication]
        ELSE LET region == Strip(Or(EnvGet(env, "CRAWLER_REGION", Brazil), Brazil))
                 out == OutputOf(region)
             IN  [exit |-> <<>>,
                  app |-> [_url |-> Strip(url), _region |-> region,
                           _output_path |-> Strip(Or(EnvGet(env, "CRAWLER_OUTPUT", out), out))]]

\* Application._load_config that keeps the output path of __init__ as default
_load_config_first_output(env) ==
    LET url == EnvGet(env, "CRAWLER_URL", <<>>)
    IN  IF env.CRAWLER_URL = <<>> \/ url = <<>> \/ Strip(url) = <<>>
        THEN [exit |-> <<1>>, app |-> NewApplication]
        ELSE LET region == Strip(Or(EnvGet(env, "CRAWLER_REGION", Brazil), Brazil))
                 out == NewApplication._output_path
             IN  [exit |-> <<>>,
                  app |-> [_url |-> Strip(url), _region |-> region,
                           _output_path |-> Strip(Or(EnvGet(env, "CRAWLER_OUTPUT", out), out))]]

\* Application._load_config after load_dotenv(): <<1>> and the fields as
\* __init__ set them when sys.exit(1) is called, <<>> and the fields read
\* from the environment otherwise
_load_config(env) ==
    LET url == EnvGet(env, "CRAWLER_URL", <<>>)
    IN  IF env.CRAWLER_URL = <<>> \/ url = <<>> \/ Strip(url) = <<>>
        THEN [exit |-> <<1>>, app |-> NewApplication]
        ELSE LET region == Strip(Or(EnvGet(env, "CRAWLER_REGION", Brazil), Brazil))
                 out == OutputOf(region)
             IN  [exit |-> <<>>,
                  app |-> [_url |-> Strip(url), _region |-> region,
                           _output_path |-> Strip(Or(EnvGet(env, "CRAWLER_OUTPUT", out), out))]]

(***************************************************************************)
(* Files.  A path is the sequence of its components, <<>> being the working *)
(* directory; a file system is the set of its directories and the content  *)
(* of each of its files, a sequence of characters.                         *)
(***************************************************************************)
RECURSIVE SplitPath(_, _)
SplitPath(t, cur) ==
    LET last == IF cur = <<>> THEN <<>> ELSE <<cur>>
    IN  IF t = <<>> THEN last
        ELSE IF Head(t) = "/" THEN last \o SplitPath(Tail(t), <<>>)
        ELSE SplitPath(Tail(t), Append(cur, Head(t)))

\* Path(text) of a relative path
PathOf(t) == SplitPath(t, <<>>)
\* Path.parent
Parent(p) == SubSeq(p, 1, Len(p) - 1)
Prefixes(p) == {SubSeq(p, 1, k) : k \in 0..Len(p)}

\* path.mkdir(parents=True, exist_ok=True): raises when a file is in the way
mkdir(fs, p) ==
    IF \E q \in Prefixes(p) : q \in DOMAIN fs.files
    THEN [ok |-> FALSE, fs |-> fs]
    ELSE [ok |-> TRUE, fs |-> [dirs |-> fs.dirs \cup Prefixes(p), files |-> fs.files]]

\* open(p, mode) and write(data); mode is "w" or "a".  Raises when p is a
\* directory or is in no directory.
WriteFile(fs, p, data, mode) ==
    IF p \in fs.dirs \/ Parent(p) \notin fs.dirs
    THEN [ok |-> FALSE, fs |-> fs]
    ELSE LET old == IF mode = "a" /\ p \in DOMAIN fs.files THEN fs.files[p] ELSE <<>>
         IN  [ok |-> TRUE,
              fs |-> [dirs |-> fs.dirs,
                      files |-> [q \in DOMAIN fs.files \cup {p} |->
                                    IF q = p THEN old \o data ELSE fs.files[q]]]]

DigitChar(d) ==
    CASE d = 0 -> "0" [] d = 1 -> "1" [] d = 2 -> "2" [] d = 3 -> "3"
      [] d = 4 -> "4" [] d = 5 -> "5" [] d = 6 -> "6" [] d = 7 -> "7"
      [] d = 8 -> "8" [] d = 9 -> "9"

\* str(n) of a natural number
RECURSIVE NatText(_)
NatText(n) == IF n < 10 THEN <<DigitChar(n)>> ELSE NatText(n \div 10) \o <<DigitChar(n % 10)>>

RECURSIVE Pow10(_)
Pow10(k) == IF k = 0 THEN 1 ELSE 10 * Pow10(k - 1)

RECURSIVE ZeroPad(_, _)
ZeroPad(t, n) == IF Len(t) >= n THEN t ELSE ZeroPad(<<"0">> \o t, n)

\* repr(float) of a price in positional notation: 1.5, 1520.0, -0.25
FloatText(p) ==
    LET a == IF p.digits < 0 THEN 0 - p.digits ELSE p.digits
        frac == IF p.scale = 0 THEN <<"0">> ELSE ZeroPad(NatText(a % Pow10(p.scale)), p.scale)
    IN  (IF p.digits < 0 THEN <<"-">> ELSE <<>>)
          \o NatText(a \div Pow10(p.scale)) \o <<".">> \o frac

RECURSIVE DoubleQuotes(_)
DoubleQuotes(t) ==
    IF t = <<>> THEN <<>>
    ELSE (IF Head(t) = "\"" THEN <<"\"", "\"">> ELSE <<Head(t)>>) \o DoubleQuotes(Tail(t))

\* a text field under csv.QUOTE_MINIMAL
CsvField(t) ==
    IF \E i \in 1..Len(t) : t[i] \in {",", "\"", "\n", "\r"}
    THEN <<"\"">> \o DoubleQuotes(t) \o <<"\"">>
    ELSE t

CsvHeader == <<"s", "y", "m", "b", "o", "l", ",", "n", "a", "m", "e", ",",
               "p", "r", "i", "c", "e", "\n">>
CsvLine(rec) ==
    CsvField(rec.symbol) \o <<",">> \o CsvField(rec.name) \o <<",">>
        \o FloatText(rec.price) \o <<"\n">>

RECURSIVE CsvLines(_)
CsvLines(df) == IF df = <<>> THEN <<>> ELSE CsvLine(Head(df)) \o CsvLines(Tail(df))

\* df.to_csv(index=False, encoding="utf-8-sig"): the byte-order mark, the
\* header and the records
to_csv(df) == <<"BOM">> \o CsvHeader \o CsvLines(df)

\* Crawler.export_csv that opens the file for appending
export_csv_append(fs, df, path) ==
    LET p == PathOf(path)
        m == mkdir(fs, Parent(p))
    IN  IF m.ok THEN WriteFile(m.fs, p, to_csv(df), "a") ELSE m

\* Crawler.export_csv(df, path): whether it returned, and the file system
\* it leaves; the value returned is Path(path)
export_csv(fs, df, path) ==
    LET p == PathOf(path)
        m == mkdir(fs, Parent(p))
    IN  IF m.ok THEN WriteFile(m.fs, p, to_csv(df), "w") ELSE m

(***************************************************************************)
(* State.                                                                  *)
(*   pc, call, ret   where the running call is, what it is and, once it    *)
(*                   has returned, <<its result>>                          *)
(*   driver          self._driver: "None" or "live"                        *)
(*   page_source     driver.page_source, the page the browser shows        *)
(*   html, total_rows, rows_per_page, rows_html, rows, page                *)
(*                   the locals of extract                                 *)
(*   parsed          the snapshots _get_table_rows was applied to, in      *)
(*                   order (history)                                       *)
(*   clicks          the calls of click_next_page (history)                *)
(*   chrome          the browsers constructed, each as the number of its   *)
(*                   quit() calls                                          *)
(*   fs              the files of the working directory                    *)
(*   log             the calls made on the Crawler, in order (history)     *)
(*   environ, dotenv os.environ and the variables of the .env file         *)
(*   app             the fields of the Application                         *)
(*   stdout, stderr  what the process has printed                          *)
(*   exit_code       <<>>, or <<status>> once sys.exit was called          *)
(***************************************************************************)
VARIABLES pc, call, ret, driver, page_source, html, total_rows, rows_per_page,
          rows_html, rows, page, parsed, clicks,
          chrome, fs, log, environ, dotenv, app, stdout, stderr, exit_code

locals == <<html, total_rows, rows_per_page, rows_html, rows, page>>
history == <<parsed, clicks>>
process == <<environ, dotenv, app, stdout, stderr, exit_code>>
world == <<chrome, fs, log>>
vars == <<pc, call, ret, driver, page_source, locals, history, process, world>>

NoEnv == [CRAWLER_URL |-> <<>>, CRAWLER_REGION |-> <<>>, CRAWLER_OUTPUT |-> <<>>]
EmptyFs == [dirs |-> {<<>>}, files |-> <<>>]

\* no Application, no browser, an empty working directory
InitProcess ==
    /\ environ = NoEnv
    /\ dotenv = NoEnv
    /\ app = NewApplication
    /\ stdout = <<>>
    /\ stderr = <<>>
    /\ exit_code = <<>>
InitWorld ==
    /\ chrome = <<>>
    /\ fs = EmptyFs
    /\ log = <<>>

InitLocals ==
    /\ html = NoSnapshot
    /\ total_rows = 0
    /\ rows_per_page = 0
    /\ rows_html = <<>>
    /\ rows = <<>>
    /\ page = 0
    /\ parsed = <<>>
    /\ clicks = 0

\* Crawler.__init__, then extract(url, region) is called
Init ==
    /\ pc = "start"
    /\ call = [fn |-> "extract"]
    /\ ret = <<>>
    /\ driver = "None"
    /\ page_source \in FirstSnapshots
    /\ InitLocals
    /\ InitProcess
    /\ InitWorld

(***************************************************************************)
(* Crawler.extract, one action per step of its loop.                       *)
(***************************************************************************)
\* the browser is opened and the page loaded and filtered; then
\*   html = driver.page_source; total_rows = ...; rows_per_page = ...;
\*   rows = []; page = 0
Start ==
    /\ pc = "start"
    /\ LET d == _get_driver(driver, chrome)
       IN  driver' = d.driver /\ chrome' = d.chrome
    /\ html' = page_source
    /\ total_rows' = _get_total_rows(page_source)
    /\ rows_per_page' = _get_rows_per_page(page_source)
    /\ rows' = <<>>
    /\ page' = 0
    /\ pc' = "parse"
    /\ UNCHANGED <<process, fs, log, call, ret, page_source, rows_html, history>>

\* rows_html = self._get_table_rows(html); the page-size fallback;
\* if rows_per_page == 0: break (and the DataFrame of rows is returned)
ParseRows ==
    /\ pc = "parse"
    /\ rows_html' = _get_table_rows(html)
    /\ rows_per_page' = AdaptRowsPerPage(rows_per_page, Len(rows_html'))
    /\ parsed' = Append(parsed, html)
    /\ IF rows_per_page' = 0
       THEN pc' = "done" /\ ret' = <<rows>>
       ELSE pc' = "append" /\ ret' = ret
    /\ UNCHANGED <<process, world, call, driver, page_source, html, total_rows, rows, page, clicks>>

\* for tr_html in rows_html: ... rows.append(...)
AppendRows ==
    /\ pc = "append"
    /\ LET r == AppendAll(rows, rows_html)
       IN  /\ rows' = r.rows
           /\ pc' = IF r.raised THEN "raised" ELSE "check"
    /\ UNCHANGED <<process, world, call, ret, driver, page_source, html, total_rows, rows_per_page,
                   rows_html, page, history>>

\* if self.is_last_page(page, total_rows, rows_per_page): break
CheckLastPage ==
    /\ pc = "check"
    /\ IF is_last_page(page, total_rows, rows_per_page)
       THEN pc' = "done" /\ ret' = <<rows>>
       ELSE pc' = "click" /\ ret' = ret
    /\ UNCHANGED <<process, world, call, driver, page_source, locals, history>>

\* self.click_next_page(driver): the click may fail silently, and what the
\* browser shows afterwards is the browser's business
ClickNextPage ==
    /\ pc = "click"
    /\ page_source' \in LaterSnapshots \cup {page_source}
    /\ clicks' = clicks + 1
    /\ pc' = "read"
    /\ UNCHANGED <<process, world, call, ret, driver, locals, parsed>>

\* html = driver.page_source; page += 1
ReadPageSource ==
    /\ pc = "read"
    /\ html' = page_source
    /\ page' = page + 1
    /\ pc' = "parse"
    /\ UNCHANGED <<process, world, call, ret, driver, page_source, total_rows, rows_per_page,
                   rows_html, rows, history>>

Next ==
    \/ Start
    \/ ParseRows
    \/ AppendRows
    \/ CheckLastPage
    \/ ClickNextPage
    \/ ReadPageSource

Spec == Init /\ [][Next]_vars

(***************************************************************************)
(* The parsers and the pagination predicate, called on their own (as the   *)
(* unit tests call them on a Crawler that holds no driver).                *)
(***************************************************************************)
\* badge texts: every concatenation of at most MaxTok of these pieces
Tokens ==
    {<<"1", "-", "7">>, <<"1">>, <<"7">>, <<"-">>, OfSep, <<"o", "f", " ">>, <<" ">>, <<"x">>}
TokenTexts == {Flatten(ts) : ts \in SeqsUpTo(Tokens, MaxTok)}

\* attribute values and span texts of the page-size control
AttrTexts == {<<>>, <<" ", "1", "7", " ">>, <<"x">>, <<"-", "7">>}
Optional(S) == {<<>>} \cup {<<x>> : x \in S}

ArgRange == (0 - MaxArg)..MaxArg

IsLastPageCalls ==
    {[fn |-> "is_last_page", page |-> p, total_rows |-> t, rows_per_page |-> r] :
        p \in ArgRange, t \in ArgRange, r \in ArgRange}

\* one or two containers; only the first one counts
DivLists == DivChoices \cup {d1 \o d2 : d1 \in DivChoices \ {<<>>}, d2 \in DivChoices \ {<<>>}}
TableRowsCalls ==
    {[fn |-> "_get_table_rows", html |-> Snapshot(d, <<>>, <<>>, <<>>)] : d \in DivLists}

TotalRowsCalls ==
    {[fn |-> "_get_total_rows", html |-> Snapshot(<<>>, t, <<>>, <<>>)] :
        t \in Optional(TokenTexts)}

\* the button found by its attributes has both of them
RowsPerPageCalls ==
    {[fn |-> "_get_rows_per_page", html |-> Snapshot(<<>>, <<>>, m, a)] :
        m \in Optional({Button(x, y, z) : x \in Optional(AttrTexts),
                                          y \in Optional(AttrTexts),
                                          z \in Optional(AttrTexts)}),
        a \in Optional({Button(<<x>>, <<y>>, z) : x \in AttrTexts, y \in AttrTexts,
                                                  z \in Optional(AttrTexts)})}

\* price texts: the texts of the unit tests and every concatenation of at
\* most MaxTok of these pieces
PriceTokens == {<<"1">>, <<"5">>, <<",">>, <<".">>, <<"-">>, <<" ">>, <<"x">>}
TestPrices ==
    {<<"1", "1", ",", "5", "2", "0", ".", "0", "0">>,
     <<"1", "5", "0", ".", "2", "5">>,
     <<>>,
     <<"n", "o", "t", " ", "a", " ", "n", "u", "m", "b", "e", "r">>,
     <<" ", " ", " ">>}
PriceTexts == TestPrices \cup {Flatten(ts) : ts \in SeqsUpTo(PriceTokens, MaxTok)}
ParsePriceCalls == {[fn |-> "_parse_price", price_str |-> t] : t \in PriceTexts}

InitCalls ==
    /\ pc = "call"
    /\ call \in IsLastPageCalls \cup TableRowsCalls \cup TotalRowsCalls
                  \cup RowsPerPageCalls \cup ParsePriceCalls
    /\ ret = <<>>
    /\ driver = "None"
    /\ page_source = NoSnapshot
    /\ InitLocals
    /\ InitProcess
    /\ InitWorld

Return(value) ==
    /\ ret' = <<value>>
    /\ pc' = "return"
    /\ UNCHANGED <<process, world, call, driver, page_source, locals, history>>

CallIsLastPage ==
    /\ pc = "call"
    /\ call.fn = "is_last_page"
    /\ Return(is_last_page(call.page, call.total_rows, call.rows_per_page))

CallGetTableRows ==
    /\ pc = "call"
    /\ call.fn = "_get_table_rows"
    /\ Return(_get_table_rows(call.html))

CallGetTotalRows ==
    /\ pc = "call"
    /\ call.fn = "_get_total_rows"
    /\ Return(_get_total_rows(call.html))

CallGetRowsPerPage ==
    /\ pc = "call"
    /\ call.fn = "_get_rows_per_page"
    /\ Return(_get_rows_per_page(call.html))

CallParsePrice ==
    /\ pc = "call"
    /\ call.fn = "_parse_price"
    /\ Return(_parse_price(call.price_str))

NextCalls ==
    \/ CallIsLastPage
    \/ CallGetTableRows
    \/ CallGetTotalRows
    \/ CallGetRowsPerPage
    \/ CallParsePrice

SpecCalls == InitCalls /\ [][NextCalls]_vars

(***************************************************************************)
(* SpecLifecycle: _get_driver, close, __enter__ and __exit__ called on one *)
(* Crawler in any order, at most MaxCalls times.                           *)
(***************************************************************************)
MaxCalls == 4

\* Crawler(headless=True)
InitLifecycle ==
    /\ pc = "idle"
    /\ call = [fn |-> "__init__"]
    /\ ret = <<>>
    /\ driver = "None"
    /\ page_source = NoSnapshot
    /\ InitLocals
    /\ InitProcess
    /\ InitWorld

\* the call fn leaves the browser as in d and returns value
Called(fn, d, value) ==
    /\ pc = "idle"
    /\ Len(log) < MaxCalls
    /\ driver' = d.driver
    /\ chrome' = d.chrome
    /\ call' = [fn |-> fn]
    /\ ret' = value
    /\ log' = Append(log, [fn |-> fn])
    /\ UNCHANGED <<pc, page_source, locals, history, process, fs>>

CallGetDriver ==
    LET d == _get_driver(driver, chrome) IN Called("_get_driver", d, <<Len(d.chrome)>>)

CallClose == Called("close", close(driver, chrome), <<>>)

\* __enter__ returns self
CallEnter == Called("__enter__", [driver |-> driver, chrome |-> chrome], <<"self">>)

CallExit == Called("__exit__", __exit__(driver, chrome), <<>>)

NextLifecycle ==
    \/ CallGetDriver
    \/ CallClose
    \/ CallEnter
    \/ CallExit

SpecLifecycle == InitLifecycle /\ [][NextLifecycle]_vars

(***************************************************************************)
(* SpecExport: export_csv called on one Crawler at most MaxExports times,  *)
(* with any of the result sets and paths below, in a working directory     *)
(* that is empty or holds files and directories already.                   *)
(***************************************************************************)
MaxExports == 2

\* the record of test_writes_file_and_returns_path, the records of the two
\* well-formed rows and a record whose name needs quoting
RecT == [symbol |-> <<"A">>, name |-> <<"B">>, price |-> [digits |-> 1, scale |-> 0]]
RecQ == [symbol |-> <<"Q">>, name |-> <<"a", ",", "\"", "b">>,
         price |-> [digits |-> 0 - 25, scale |-> 2]]
ExportFrames ==
    {<<>>, <<RecT>>, <<RowRecord(RowA), RowRecord(RowB)>>,
     <<RowRecord(RowB), RowRecord(RowA)>>, <<RecQ>>}

PathTexts == {<<"f">>, <<"d", "/", "f">>, <<"d", "/", "e", "/", "f">>, <<>>}
ExportCalls == {[fn |-> "export_csv", df |-> d, path |-> t] : d \in ExportFrames, t \in PathTexts}

OldContent == <<"o", "l", "d", "\n">>
PathF == <<<<"f">>>>
PathD == <<<<"d">>>>
PathDF == <<<<"d">>, <<"f">>>>
FsChoices ==
    {EmptyFs,
     [dirs |-> {<<>>}, files |-> (PathF :> OldContent)],
     [dirs |-> {<<>>, PathD}, files |-> (PathDF :> OldContent)],
     [dirs |-> {<<>>}, files |-> (PathD :> OldContent)],
     [dirs |-> {<<>>, PathF}, files |-> <<>>]}

InitExport ==
    /\ pc = "idle"
    /\ call = [fn |-> "__init__"]
    /\ ret = <<>>
    /\ driver = "None"
    /\ page_source = NoSnapshot
    /\ InitLocals
    /\ InitProcess
    /\ chrome = <<>>
    /\ fs \in FsChoices
    /\ log = <<>>

\* export_csv(df, path) returns Path(path)
CallExportCsv ==
    \E c \in ExportCalls :
        LET r == export_csv(fs, c.df, c.path)
        IN  /\ pc = "idle"
            /\ Len(log) < MaxExports
            /\ r.ok
            /\ fs' = r.fs
            /\ call' = c
            /\ ret' = <<PathOf(c.path)>>
            /\ log' = Append(log, [fn |-> "export_csv", df |-> c.df, path |-> c.path, ok |-> TRUE])
            /\ UNCHANGED <<pc, driver, page_source, locals, history, process, chrome>>

\* export_csv(df, path) raises OSError
CallExportCsvRaises ==
    \E c \in ExportCalls :
        LET r == export_csv(fs, c.df, c.path)
        IN  /\ pc = "idle"
            /\ Len(log) < MaxExports
            /\ ~r.ok
            /\ fs' = r.fs
            /\ call' = c
            /\ ret' = <<>>
            /\ log' = Append(log, [fn |-> "export_csv", df |-> c.df, path |-> c.path, ok |-> FALSE])
            /\ UNCHANGED <<pc, driver, page_source, locals, history, process, chrome>>

NextExport ==
    \/ CallExportCsv
    \/ CallExportCsvRaises

SpecExport == InitExport /\ [][NextExport]_vars

(***************************************************************************)
(* SpecApp: main(), that is Application() and then run().                  *)
(***************************************************************************)
UrlChoices == {<<>>, <<<<>>>>, <<<<" ">>>>, <<<<"u">>>>, <<<<" ", "u", " ">>>>}
RegionChoices == {<<>>, <<<<>>>>, <<<<" ">>>>, <<<<"A">>>>, <<<<" ", "A", "r", " ">>>>}
OutputChoices == {<<>>, <<<<>>>>, <<<<" ">>>>, <<<<"d">>>>, <<<<" ", "d", "/", "f", " ">>>>}
Environs ==
    {[CRAWLER_URL |-> u, CRAWLER_REGION |-> r, CRAWLER_OUTPUT |-> o] :
        u \in UrlChoices, r \in RegionChoices, o \in OutputChoices}
\* no .env file, or one that sets the URL and the region
DotenvChoices ==
    {NoEnv, [CRAWLER_URL |-> <<<<"v">>>>, CRAWLER_REGION |-> <<<<"Z">>>>, CRAWLER_OUTPUT |-> <<>>]}

InitApp ==
    /\ pc = "new"
    /\ call = [fn |-> "main"]
    /\ ret = <<>>
    /\ driver = "None"
    /\ page_source = NoSnapshot
    /\ InitLocals
    /\ environ \in Environs
    /\ dotenv \in DotenvChoices
    /\ app = NewApplication
    /\ stdout = <<>>
    /\ stderr = <<>>
    /\ exit_code = <<>>
    /\ chrome = <<>>
    /\ fs \in {EmptyFs, [dirs |-> {<<>>}, files |-> (PathD :> OldContent)]}
    /\ log = <<>>

\* Application(): __init__ and _load_config
AppInit ==
    /\ pc = "new"
    /\ LET env == load_dotenv(environ, dotenv)
           c == _load_config(env)
       IN  /\ environ' = env
           /\ app' = c.app
           /\ exit_code' = c.exit
           /\ IF c.exit = <<>>
              THEN pc' = "configured" /\ stderr' = stderr
              ELSE pc' = "exited" /\ stderr' = Append(stderr, "Error: CRAWLER_URL is not set.")
    /\ UNCHANGED <<call, ret, driver, page_source, locals, history, dotenv, stdout, world>>

\* run up to the body of the with statement: logger.info(...),
\* Crawler(headless=True), __enter__
RunEnter ==
    /\ pc = "configured"
    /\ stderr' = Append(stderr, "Starting crawler")
    /\ log' = log \o <<[fn |-> "Crawler"], [fn |-> "__enter__"]>>
    /\ pc' = "extract"
    /\ UNCHANGED <<call, ret, driver, page_source, locals, history,
                   environ, dotenv, app, stdout, exit_code, chrome, fs>>

\* df = crawler.extract(self._url, self._region) returns
RunExtract ==
    \E df \in ExportFrames :
        /\ pc = "extract"
        /\ LET d == _get_driver(driver, chrome)
           IN  driver' = d.driver /\ chrome' = d.chrome
        /\ ret' = <<df>>
        /\ log' = Append(log, [fn |-> "extract", url |-> app._url, region |-> app._region,
                               out |-> <<df>>])
        /\ pc' = "export"
        /\ UNCHANGED <<call, page_source, locals, history, process, fs>>

\* crawler.extract raises, before or after the browser was opened
RunExtractRaises ==
    \E opened \in BOOLEAN :
        /\ pc = "extract"
        /\ LET d == IF opened THEN _get_driver(driver, chrome)
                    ELSE [driver |-> driver, chrome |-> chrome]
           IN  driver' = d.driver /\ chrome' = d.chrome
        /\ ret' = <<>>
        /\ log' = Append(log, [fn |-> "extract", url |-> app._url, region |-> app._region,
                               out |-> <<>>])
        /\ pc' = "exit_raising"
        /\ UNCHANGED <<call, page_source, locals, history, process, fs>>

\* path = crawler.export_csv(df, self._output_path) returns; print(...)
RunExport ==
    LET r == export_csv(fs, ret[1], app._output_path)
    IN  /\ pc = "export"
        /\ r.ok
        /\ fs' = r.fs
        /\ stdout' = Append(stdout, [extracted |-> Len(ret[1]),
                                     exported |-> PathOf(app._output_path)])
        /\ log' = Append(log, [fn |-> "export_csv", df |-> ret[1],
                               path |-> app._output_path, ok |-> TRUE])
        /\ pc' = "exit"
        /\ UNCHANGED <<call, ret, driver, page_source, locals, history,
                       environ, dotenv, app, stderr, exit_code, chrome>>

\* crawler.export_csv raises
RunExportRaises ==
    LET r == export_csv(fs, ret[1], app._output_path)
    IN  /\ pc = "export"
        /\ ~r.ok
        /\ fs' = r.fs
        /\ log' = Append(log, [fn |-> "export_csv", df |-> ret[1],
                               path |-> app._output_path, ok |-> FALSE])
        /\ pc' = "exit_raising"
        /\ UNCHANGED <<call, ret, driver, page_source, locals, history, process, chrome>>

\* the end of the with statement: crawler.__exit__(...), then run returns
\* or the exception goes on
RunExit ==
    /\ pc \in {"exit", "exit_raising"}
    /\ LET d == __exit__(driver, chrome)
       IN  driver' = d.driver /\ chrome' = d.chrome
    /\ log' = Append(log, [fn |-> "__exit__"])
    /\ pc' = IF pc = "exit" THEN "returned" ELSE "raised"
    /\ UNCHANGED <<call, ret, page_source, locals, history, process, fs>>

NextApp ==
    \/ AppInit
    \/ RunEnter
    \/ RunExtract
    \/ RunExtractRaises
    \/ RunExport
    \/ RunExportRaises
    \/ RunExit

SpecApp == InitApp /\ [][NextApp]_vars

(***************************************************************************)
(* Properties of the parsers and of the pagination predicate (SpecCalls).  *)
(***************************************************************************)
Returned(fn) == pc = "return" /\ call.fn = fn /\ Len(ret) = 1

\* C1: is_last_page(page, total_rows, rows_per_page) is true if and only if
\* rows_per_page <= 0 or (page + 1) * rows_per_page >= total_rows, and the
\* call leaves the crawler (its driver and the page the browser shows) as
\* it was.
C1_IsLastPageIff ==
    [][(pc = "call" /\ call.fn = "is_last_page") =>
          /\ ret' = <<(call.rows_per_page <= 0
                        \/ (call.page + 1) * call.rows_per_page >= call.total_rows)>>
          /\ UNCHANGED <<driver, page_source>>]_vars

\* is_last_page has answered TRUE for a positive page size on the boundary
\* (page + 1) * rows_per_page = total_rows
C1_Witness ==
    /\ Returned("is_last_page")
    /\ ret[1] = TRUE
    /\ call.rows_per_page > 0
    /\ call.page > 0
    /\ (call.page + 1) * call.rows_per_page = call.total_rows

HasContainer(h) == h.div_table # <<>>
HasTable(h) == HasContainer(h) /\ h.div_table[1].table # <<>>
HasTBody(h) == HasTable(h) /\ h.div_table[1].table[1].tbody # <<>>

\* C9: _get_table_rows returns the rows of the table body, in document
\* order, when the container, its table and the table's body are all
\* present, and the empty sequence when one of the three is absent; it
\* always returns.
C9_TableRowsTotal ==
    /\ Returned("_get_table_rows") =>
          ret[1] = IF HasTBody(call.html)
                   THEN call.html.div_table[1].table[1].tbody[1].trs
                   ELSE <<>>
    /\ (pc = "call" /\ call.fn = "_get_table_rows") => ENABLED CallGetTableRows

\* _get_table_rows has returned no row for a table that has rows but no tbody
C9_Witness ==
    /\ Returned("_get_table_rows")
    /\ HasTable(call.html)
    /\ ~HasTBody(call.html)
    /\ call.html.div_table[1].table[1].trs # <<>>
    /\ ret[1] = <<>>

\* text is "<start>-<end> of <total>", three runs of digits, with its "-"
\* at i and its " of " at j
IsBadgeAt(text, i, j) ==
    /\ text[i] = "-"
    /\ i < j
    /\ j + Len(OfSep) <= Len(text)
    /\ SubSeq(text, j, j + Len(OfSep) - 1) = OfSep
    /\ AllDigits(SubSeq(text, 1, i - 1))
    /\ AllDigits(SubSeq(text, i + 1, j - 1))
    /\ AllDigits(SubSeq(text, j + Len(OfSep), Len(text)))

\* what follows the last " of " of text
AfterLastOf(text) ==
    LET at == {k \in 1..(Len(text) - Len(OfSep) + 1) :
                  SubSeq(text, k, k + Len(OfSep) - 1) = OfSep}
        last == CHOOSE k \in at : \A m \in at : m <= k
    IN  SubSeq(text, last + Len(OfSep), Len(text))

\* the page-size control: the button found by its class or, failing that,
\* by its attributes
Control(h) == IF h.menuBtn # <<>> THEN h.menuBtn ELSE h.attrBtn
HoldsInt(val) == val # <<>> /\ IntParses(val[1])

\* C10: _get_total_rows returns <total> for a text "<start>-<end> of <total>"
\* and 0 when the element is missing, the text has no " of ", or what
\* follows the last " of " is not an integer; _get_rows_per_page returns 0
\* when the control is missing or none of its aria-label, title and
\* textSelect span holds an integer.
C10_ParsersReturnZero ==
    /\ Returned("_get_total_rows") =>
          LET el == call.html.div_total
          IN  /\ el = <<>> => ret[1] = 0
              /\ (el # <<>> /\ ~Contains(el[1], OfSep)) => ret[1] = 0
              /\ (el # <<>> /\ Contains(el[1], OfSep) /\ ~IntParses(AfterLastOf(el[1])))
                    => ret[1] = 0
              /\ el # <<>> =>
                    \A i \in 1..Len(el[1]), j \in 1..Len(el[1]) :
                        IsBadgeAt(el[1], i, j) =>
                            ret[1] = DecVal(SubSeq(el[1], j + Len(OfSep), Len(el[1])))
    /\ Returned("_get_rows_per_page") =>
          LET c == Control(call.html)
          IN  /\ c = <<>> => ret[1] = 0
              /\ (/\ c # <<>>
                  /\ ~HoldsInt(c[1].aria_label)
                  /\ ~HoldsInt(c[1].title)
                  /\ ~HoldsInt(c[1].span)) => ret[1] = 0

\* _get_total_rows has returned 0 for a text that has " of " followed by
\* something that is not an integer
C10_Witness ==
    /\ Returned("_get_total_rows")
    /\ call.html.div_total # <<>>
    /\ Contains(call.html.div_total[1], OfSep)
    /\ AfterLastOf(call.html.div_total[1]) = <<"1", "x">>
    /\ ret[1] = 0

NotComma(c) == c # ","
\* the text without its commas
WithoutCommas(t) == SelectSeq(t, NotComma)

\* C11: _parse_price returns the float that the text without its commas
\* reads as ("11,520.00" gives 11520.0, "150.25" gives 150.25), and 0.0,
\* the price of "0", for every text that does not read as a float (the
\* empty text, blanks, words).
C11_ParsePrice ==
    Returned("_parse_price") =>
        LET t == call.price_str
        IN  /\ FloatParses(WithoutCommas(t)) => ret[1] = FloatOf(WithoutCommas(t))
            /\ ~FloatParses(WithoutCommas(t)) =>
                  ret[1] = [digits |-> 0, scale |-> 0] /\ ret[1] = FloatOf(<<"0">>)
            /\ t = <<"1", "1", ",", "5", "2", "0", ".", "0", "0">> =>
                  ret[1] = [digits |-> 11520, scale |-> 0]
            /\ t = <<"1", "5", "0", ".", "2", "5">> =>
                  ret[1] = [digits |-> 15025, scale |-> 2]
            /\ t \in {<<>>, <<" ", " ", " ">>,
                       <<"n", "o", "t", " ", "a", " ", "n", "u", "m", "b", "e", "r">>} =>
                  ret[1] = [digits |-> 0, scale |-> 0]

\* _parse_price has returned 1.5 for a text with a comma in it
C11_Witness ==
    /\ Returned("_parse_price")
    /\ call.price_str = <<"1", ",", ".", "5">>
    /\ ret[1] = [digits |-> 15, scale |-> 1]

(***************************************************************************)
(* Properties of the extraction loop (Spec).                               *)
(***************************************************************************)
\* extract has left its loop: it returned the rows or it raised
Terminated == pc \in {"done", "raised"}

\* what the two metadata parsers gave for the first snapshot
FirstTotal == _get_total_rows(parsed[1])
FirstPageSize == _get_rows_per_page(parsed[1])

CeilDiv(a, b) == (a + b - 1) \div b

AtLeastFiveCells(tr) == Len(tr.cells) >= 5
RecordsOf(trs) == [i \in 1..Len(trs) |-> RowRecord(trs[i])]
\* the records of the rows of a snapshot that have five cells or more
AcceptedRecords(h) == RecordsOf(SelectSeq(_get_table_rows(h), AtLeastFiveCells))

RECURSIVE ConcatRecords(_)
ConcatRecords(hs) ==
    IF hs = <<>> THEN <<>> ELSE AcceptedRecords(Head(hs)) \o ConcatRecords(Tail(hs))

IsPrefix(s, t) == Len(s) <= Len(t) /\ SubSeq(t, 1, Len(s)) = s

\* C2: with a first snapshot of total T > 0 and page size S > 0, the loop
\* ends after exactly ceil(T / S) parse cycles and ceil(T / S) - 1 next-page
\* requests, whatever the later snapshots hold.
C2_ExactCycles ==
    (Terminated /\ FirstTotal > 0 /\ FirstPageSize > 0) =>
        /\ Len(parsed) = CeilDiv(FirstTotal, FirstPageSize)
        /\ clicks = CeilDiv(FirstTotal, FirstPageSize) - 1

\* The same count, for the runs of extract that return.
C2_ExactCyclesOnReturn ==
    (pc = "done" /\ FirstTotal > 0 /\ FirstPageSize > 0) =>
        /\ Len(parsed) = CeilDiv(FirstTotal, FirstPageSize)
        /\ clicks = CeilDiv(FirstTotal, FirstPageSize) - 1

\* C3, as claimed: a total of 0 or a page size of 0 read from the first
\* snapshot ends the loop within one parse cycle, with no next-page request.
C3_FailClosedOriginal ==
    (parsed # <<>> /\ (FirstTotal = 0 \/ FirstPageSize = 0)) =>
        Len(parsed) <= 1 /\ clicks = 0

\* C3, amended: a total of 0 read from the first snapshot, or a page size of
\* 0 read from a first snapshot in which no row is found, ends the loop
\* within one parse cycle, with no next-page request.
C3_FailClosed ==
    (/\ parsed # <<>>
     /\ \/ FirstTotal = 0
        \/ FirstPageSize = 0 /\ _get_table_rows(parsed[1]) = <<>>) =>
        Len(parsed) <= 1 /\ clicks = 0

\* extract has returned after one cycle: the page size read was 0, no row
\* was found, and the total read was positive
C3_Witness ==
    /\ pc = "done"
    /\ FirstPageSize = 0
    /\ _get_table_rows(parsed[1]) = <<>>
    /\ FirstTotal > 0
    /\ Len(parsed) = 1

\* C4: the rows of a snapshot with fewer than 5 cells are skipped, and the
\* records of the other rows are appended all the same.
C4_ShortRowsSkipped ==
    [][pc = "append" =>
          /\ pc' = "check"
          /\ rows' = rows \o RecordsOf(SelectSeq(rows_html, AtLeastFiveCells))]_vars

\* C5: no step of the loop raises: extract never ends by an exception.
C5_NeverRaises == pc # "raised"

\* C6: the result of extract is the concatenation, in page order and in row
\* order within a page, of the records of the rows of every snapshot the
\* loop parsed, one record per row with duplicates kept; and the records
\* accumulated so far are never removed, reordered or changed.
C6_ResultIsConcatenation ==
    /\ [](pc = "done" => ret = <<ConcatRecords(parsed)>>)
    /\ [][IsPrefix(rows, rows')]_vars

\* extract has returned the records of two pages, two of them with the
\* same symbol
C6_Witness ==
    /\ pc = "done"
    /\ Len(parsed) >= 2
    /\ Len(ret[1]) >= 3
    /\ \E i \in 1..Len(ret[1]), j \in 1..Len(ret[1]) :
          i < j /\ ret[1][i].symbol = ret[1][j].symbol /\ ret[1][i] # ret[1][j]

\* C7: after the page size has been read from the first snapshot, it
\* changes only on page 0, only from 0, and to the number of rows found in
\* that snapshot; a page size that is then still 0 ends the loop with no
\* record; a nonzero page size never changes.
C7_AdaptiveFallback ==
    [][pc # "start" =>
          /\ rows_per_page' # rows_per_page =>
                /\ pc = "parse"
                /\ page = 0
                /\ rows_per_page = 0
                /\ _get_rows_per_page(html) = 0
                /\ rows_per_page' = Len(_get_table_rows(html))
          /\ (pc = "parse" /\ rows_per_page' = 0) =>
                pc' = "done" /\ rows' = <<>> /\ ret' = <<<<>>>>]_vars

\* on a later page, the page size is still the number of rows found in the
\* first snapshot, whose page size read 0, though this page has another
\* number of rows
C7_Witness ==
    /\ pc = "append"
    /\ page >= 1
    /\ FirstPageSize = 0
    /\ rows_per_page = Len(_get_table_rows(parsed[1]))
    /\ Len(rows_html) # rows_per_page

\* C8: page, total_rows and rows_per_page are never negative, whatever the
\* snapshots hold (page, moreover, changes only by increments of one:
\* C8_PageStepsByOne).
C8_NonNegativeState == page >= 0 /\ total_rows >= 0 /\ rows_per_page >= 0

\* page starts at 0 and changes only by increments of one.
C8_PageStepsByOne ==
    /\ [](page >= 0)
    /\ [][page' = page \/ page' = page + 1]_vars

(***************************************************************************)
(* Properties of the browser of a Crawler (SpecLifecycle).                 *)
(***************************************************************************)
LiveBrowsers == {i \in 1..Len(chrome) : chrome[i] = 0}
Calling(fn) == log' = Append(log, [fn |-> fn])

\* C17: at most one browser is live, and it is the one held; no browser is
\* quit twice and none is left open without being held.  _get_driver
\* constructs a browser only when none is held and returns the one held;
\* close and __exit__ quit the browser held once and clear the reference,
\* and do nothing when none is held; __enter__ leaves the browser alone.
C17_BrowserLifecycle ==
    /\ [](/\ Cardinality(LiveBrowsers) <= 1
          /\ \A i \in 1..Len(chrome) : chrome[i] <= 1
          /\ driver = "None" => LiveBrowsers = {}
          /\ driver # "None" => LiveBrowsers = {Len(chrome)})
    /\ [][/\ Calling("_get_driver") =>
                /\ driver = "None" => chrome' = Append(chrome, 0)
                /\ driver # "None" => chrome' = chrome
                /\ driver' # "None"
                /\ ret' = <<Len(chrome')>>
          /\ Calling("close") \/ Calling("__exit__") =>
                /\ driver' = "None"
                /\ driver = "None" => chrome' = chrome
                /\ driver # "None" =>
                      /\ Len(chrome') = Len(chrome)
                      /\ \A i \in 1..Len(chrome) :
                            chrome'[i] = IF i = Len(chrome) THEN chrome[i] + 1 ELSE chrome[i]
          /\ Calling("__enter__") => UNCHANGED <<driver, chrome>>]_vars

\* a second browser is held after the first was closed, a close with no
\* browser held and one with the first browser held
C17_Witness ==
    /\ Len(log) = 4
    /\ log[1].fn = "close" /\ log[2].fn = "_get_driver"
    /\ log[3].fn = "__exit__" /\ log[4].fn = "_get_driver"
    /\ chrome = <<1, 0>>
    /\ driver = "live"

(***************************************************************************)
(* Properties of export_csv (SpecExport).                                  *)
(***************************************************************************)
\* the lines of a content, each without the "\n" that ends it
RECURSIVE Lines(_, _)
Lines(t, cur) ==
    IF t = <<>> THEN (IF cur = <<>> THEN <<>> ELSE <<cur>>)
    ELSE IF Head(t) = "\n" THEN <<cur>> \o Lines(Tail(t), <<>>)
    ELSE Lines(Tail(t), Append(cur, Head(t)))

Exported(l) == l # <<>> /\ l[Len(l)].fn = "export_csv" /\ l[Len(l)].ok

RecordLine(rec) ==
    CsvField(rec.symbol) \o <<",">> \o CsvField(rec.name) \o <<",">> \o FloatText(rec.price)

\* C14: when export_csv(df, path) has returned, the file at path holds the
\* byte-order mark and the header symbol,name,price on its first line and
\* then one line for each record of df, in order, whatever the file held
\* before; the directories above it exist; no other file has changed; and
\* a second export of the same df to the same path leaves the file system
\* as the first left it.
C14_ExportIdempotent ==
    /\ [](Exported(log) =>
            LET p == ret[1]
                lines == Lines(fs.files[p], <<>>)
            IN  /\ p \in DOMAIN fs.files
                /\ Prefixes(Parent(p)) \subseteq fs.dirs
                /\ fs.files[p][Len(fs.files[p])] = "\n"
                /\ Len(lines) = 1 + Len(call.df)
                /\ lines[1] = <<"BOM", "s", "y", "m", "b", "o", "l", ",", "n", "a", "m", "e",
                                ",", "p", "r", "i", "c", "e">>
                /\ \A i \in 1..Len(call.df) : lines[i + 1] = RecordLine(call.df[i])
                /\ call.df = <<RecT>> => lines[2] = <<"A", ",", "B", ",", "1", ".", "0">>
                /\ call.df = <<RecQ>> =>
                     lines[2] = <<"Q", ",", "\"", "a", ",", "\"", "\"", "b", "\"", ",",
                                  "-", "0", ".", "2", "5">>
                /\ call.df = <<RowRecord(RowB), RowRecord(RowA)>> =>
                     /\ lines[2] = <<"A", ",", "B", "b", ",", "1", "5", "2", "0", ".", "0">>
                     /\ lines[3] = <<"A", ",", "A", "a", ",", "1", ".", "5">>)
    /\ [][Exported(log') /\ log' # log =>
            /\ DOMAIN fs'.files = DOMAIN fs.files \cup {ret'[1]}
            /\ \A q \in DOMAIN fs.files \ {ret'[1]} : fs'.files[q] = fs.files[q]
            /\ fs'.dirs = fs.dirs \cup Prefixes(Parent(ret'[1]))
            /\ (Exported(log) /\ call' = call) => fs' = fs]_vars

\* the same result set was exported twice to d/e/f, in a working directory
\* that had no directory d
C14_Witness ==
    /\ Len(log) = 2
    /\ Exported(log)
    /\ log[1] = log[2]
    /\ log[1].df = <<RowRecord(RowA), RowRecord(RowB)>>
    /\ log[1].path = <<"d", "/", "e", "/", "f">>
    /\ fs = [dirs |-> {<<>>, PathD, <<<<"d">>, <<"e">>>>},
             files |-> (<<<<"d">>, <<"e">>, <<"f">>>> :> to_csv(log[1].df))]

(***************************************************************************)
(* Properties of the Application (SpecApp).                                *)
(***************************************************************************)
\* a variable that is unset, empty or made of blanks only
Blank(v) == v = <<>> \/ Strip(v[1]) = <<>>
UnsetOrEmpty(v) == v = <<>> \/ v[1] = <<>>
\* CRAWLER_URL as the process finds it: in its environment or else in .env
UrlFound == IF environ.CRAWLER_URL # <<>> THEN environ.CRAWLER_URL ELSE dotenv.CRAWLER_URL

\* C12: when CRAWLER_URL is unset, empty or blank, Application() writes one
\* message to the error stream and exits with status 1; no Crawler has been
\* created, no browser opened, no file written, and nothing runs after
\* the exit.
C12_MissingUrlIsFatal ==
    /\ [][pc = "new" /\ Blank(UrlFound) =>
            /\ pc' = "exited"
            /\ exit_code' = <<1>>
            /\ Len(stderr') = Len(stderr) + 1
            /\ UNCHANGED <<driver, chrome, fs, log, stdout, page_source>>]_vars
    /\ [](pc = "exited" =>
            /\ exit_code # <<>> /\ exit_code[1] # 0
            /\ stderr # <<>>
            /\ log = <<>> /\ chrome = <<>> /\ driver = "None")
    /\ [][pc # "exited"]_vars

\* the process has exited on a URL of blanks, although .env has a URL
C12_Witness ==
    /\ pc = "exited"
    /\ environ.CRAWLER_URL = <<<<" ">>>>
    /\ dotenv.CRAWLER_URL # <<>>
    /\ exit_code = <<1>>
    /\ Len(stderr) = 1

\* C13: when CRAWLER_URL is set, Application() does not exit; the URL is the
\* variable stripped; the region is "Brazil" when CRAWLER_REGION is unset or
\* empty and the variable stripped otherwise; the output path is "output_",
\* the region of the application and ".csv" when CRAWLER_OUTPUT is unset or
\* empty and the variable stripped otherwise.
C13_ConfigDefaults ==
    pc # "new" /\ ~Blank(environ.CRAWLER_URL) =>
        /\ exit_code = <<>>
        /\ app._url = Strip(environ.CRAWLER_URL[1])
        /\ app._region = IF UnsetOrEmpty(environ.CRAWLER_REGION) THEN <<"Brazil">>
                         ELSE Strip(environ.CRAWLER_REGION[1])
        /\ app._output_path =
              IF UnsetOrEmpty(environ.CRAWLER_OUTPUT)
              THEN <<"output_">> \o app._region \o <<".csv">>
              ELSE Strip(environ.CRAWLER_OUTPUT[1])

\* the region is set, with blanks around it, and the output path is not
C13_Witness ==
    /\ pc = "configured"
    /\ environ.CRAWLER_REGION = <<<<" ", "A", "r", " ">>>>
    /\ environ.CRAWLER_OUTPUT = <<>>
    /\ app._region = <<"A", "r">>
    /\ app._output_path = <<"output_", "A", "r", ".csv">>

Finished == pc \in {"returned", "raised"}
ExtractsLogged == {i \in 1..Len(log) : log[i].fn = "extract"}
ExportsLogged == {i \in 1..Len(log) : log[i].fn = "export_csv"}

\* C18: run calls extract once, with the URL and the region of the
\* application; it calls export_csv at most once, after extract has
\* returned and with the result set extract returned; no file is written
\* unless extract has returned; and when run is over, by a return or by an
\* exception of extract or of export_csv, __exit__ was the last call and no
\* browser is held or live.
C18_RunClosesCrawler ==
    /\ [](/\ Cardinality(ExtractsLogged) <= 1
          /\ Cardinality(ExportsLogged) <= 1
          /\ \A i \in ExtractsLogged : log[i].url = app._url /\ log[i].region = app._region
          /\ \A j \in ExportsLogged :
                \E i \in ExtractsLogged :
                    i < j /\ log[i].out # <<>> /\ log[j].df = log[i].out[1]
          /\ Finished =>
                /\ Cardinality(ExtractsLogged) = 1
                /\ log[Len(log)].fn = "__exit__"
                /\ driver = "None"
                /\ LiveBrowsers = {}
                /\ pc = "returned" <=> \E j \in ExportsLogged : log[j].ok)
    /\ [][fs' # fs => \E i \in ExtractsLogged : log[i].out # <<>>]_vars

\* extract has raised with the browser open: run is over, nothing was
\* exported and the browser was quit
C18_Witness ==
    /\ pc = "raised"
    /\ ExportsLogged = {}
    /\ chrome = <<1>>
    /\ driver = "None"

\* export_csv has raised after extract returned: run is over and the browser
\* was quit
C18_WitnessExportRaised ==
    /\ pc = "raised"
    /\ \E j \in ExportsLogged : ~log[j].ok
    /\ chrome = <<1>>
    /\ driver = "None"

(***************************************************************************)
(* Order and frame of the extraction loop (Spec).                          *)
(***************************************************************************)
\* the steps of the loop follow one another as the code has them
LoopSteps ==
    /\ [][pc' = "check" => pc = "append"]_vars
    /\ [][rows' # rows => pc \in {"start", "append"}]_vars
    /\ [][pc' = "click" =>
            pc = "check" /\ ~is_last_page(page, total_rows, rows_per_page)]_vars
    /\ [][clicks' # clicks => pc = "click" /\ clicks' = clicks + 1 /\ pc' = "read"]_vars
    /\ [][pc = "read" => html' = page_source /\ page' = page + 1 /\ pc' = "parse"]_vars
    /\ [][page' # page => pc \in {"start", "read"}]_vars
    /\ [][parsed' # parsed => pc = "parse" /\ parsed' = Append(parsed, html)]_vars
    /\ [](pc \in {"parse", "append", "check", "click", "done", "raised"} =>
            page = clicks /\ Len(parsed) \in {page, page + 1})
    /\ [](pc = "read" => page + 1 = clicks /\ Len(parsed) = clicks)
    /\ [][pc # "done"]_vars

\* C15: the rows of a snapshot are appended before is_last_page is
\* evaluated; Next is requested only when is_last_page has just been false
\* for the current page; each request is followed by one read of the
\* snapshot and one increment of page; nothing happens once extract is
\* done; and the loop stops at the first page for which is_last_page holds.
C15_LoopOrdering ==
    /\ LoopSteps
    /\ [](Terminated =>
            /\ is_last_page(page, total_rows, rows_per_page)
            /\ \A q \in 0..(page - 1) : ~is_last_page(q, total_rows, rows_per_page))

\* The same, for the runs of extract that return.
C15_LoopOrderingOnReturn ==
    /\ LoopSteps
    /\ [](pc = "done" =>
            /\ is_last_page(page, total_rows, rows_per_page)
            /\ \A q \in 0..(page - 1) : ~is_last_page(q, total_rows, rows_per_page))

\* the number of parse cycles that the first snapshot alone lets one expect:
\* one when its page size, after the fallback, is not positive, when it does
\* not exceed the total, or when a row of the first snapshot stops the loop;
\* ceil(total / page size) otherwise
CyclesOf(first) ==
    LET n == Len(_get_table_rows(first))
        T == _get_total_rows(first)
        S == IF _get_rows_per_page(first) = 0 THEN n ELSE _get_rows_per_page(first)
    IN  IF S <= 0 \/ T <= S THEN 1
        ELSE IF \E i \in 1..n : ~AtLeastFiveCells(_get_table_rows(first)[i]) THEN 1
        ELSE CeilDiv(T, S)

\* the total is the one of the first snapshot and is never read again; a
\* request changes page by one whether or not the browser shows another page
FirstTotalKept ==
    /\ [](parsed # <<>> => total_rows = FirstTotal)
    /\ [][pc # "start" => total_rows' = total_rows]_vars
    /\ [][pc = "click" => pc' = "read"]_vars
    /\ [](parsed # <<>> => Len(parsed) <= CyclesOf(parsed[1]))

\* C16: the total is read from the first snapshot only; the number of parse
\* cycles is the one the first snapshot determines, whatever the later
\* snapshots hold and whether or not a click on Next changed the page; a
\* failed click still advances page, and the loop ends.
C16_FirstSnapshotDecides ==
    /\ FirstTotalKept
    /\ [](Terminated => Len(parsed) = CyclesOf(parsed[1]))

\* The same, for the runs of extract that return.
C16_FirstSnapshotDecidesOnReturn ==
    /\ FirstTotalKept
    /\ [](pc = "done" => Len(parsed) = CyclesOf(parsed[1]))

=============================================================================
